---- MODULE Spec2Model ----
\* Model of store_status_web.py: the identifier resolver, the GraphQL client,
\* the retry wrapper, the store availability aggregator (collect_status) and
\* the threaded HTTP status service (Handler.do_GET under ThreadingHTTPServer).
\*
\* Encoding of Python values:
\*   - a str is a sequence of one-character strings where the code inspects its
\*     characters (URLs, request targets), a TLA+ string otherwise;
\*   - an optional value (None, or a dict key that is missing: dict.get gives
\*     None for both) is the empty sequence <<>>, a present value v is <<v>>;
\*   - an exception is a record [type, msg, n, cause], cause = <<>> or <<exc>>;
\*   - the result of a fallible call is [ok, val, exc] (see Ok and Fail).
\*   - generated_at_utc (the wall clock) is left out of the snapshot.
EXTENDS Integers, Sequences, FiniteSets, TLC

VARIABLES
    PRODUCT_PAGE_URL,   \* process configuration, fixed when the process starts
    stub,               \* the responses the GraphQL endpoint can give
    clients,            \* the requests that will arrive: for each, the targets it may name
    req,                \* per request thread: the locals of do_GET/collect_status/with_retry
    rt                  \* a stand-alone with_retry(fn, attempts) call

vars == <<PRODUCT_PAGE_URL, stub, clients, req, rt>>

-----------------------------------------------------------------------------
\* Bounds of the model

NumRequests == 2
MaxAttempts == 5
MaxFailures == 5

\* Program constants

DEFAULT_ATTEMPTS == 3
DELAY_TENTHS == 8

GRAPHQL_URL == "https://services.centralmarket.com/cm-graphql-service/"
FALLBACK_TITLE == "Central Market Green Chile Chicken Soup, 16 oz"
INDEX_HTML == "<!doctype html>"

TARGET_STORES ==
    << [label |-> "Plano", store_id |-> 546],
       [label |-> "Lovers Lane", store_id |-> 552] >>

Requests == 1..NumRequests

-----------------------------------------------------------------------------
\* Python values

\* Truthiness of an optional str: None and "" are falsy.
TruthyStr(t) == t # <<>> /\ t[1] # ""

\* bool(x) for an optional JSON boolean: None and false are falsy.
PyBool(b) == b # <<>> /\ b[1] = TRUE

\* a or b
PyOr(a, b) == IF TruthyStr(a) THEN a ELSE b

Exc(type, msg, n, cause) == [type |-> type, msg |-> msg, n |-> n, cause |-> cause]

Ok(v) == [ok |-> TRUE, val |-> <<v>>, exc |-> <<>>]
Fail(e) == [ok |-> FALSE, val |-> <<>>, exc |-> <<e>>]

-----------------------------------------------------------------------------
\* Strings as character sequences

Letters == {"h", "c", "p", "a", "i", "s", "t", "u", "x"}
DecimalChars == <<"0", "1", "2", "3", "4", "5", "6", "7", "8", "9">>

\* str.isdigit() is true of the decimal digits and of other Unicode digits
\* such as SUPERSCRIPT TWO, which int() does not accept.
DigitChars == {DecimalChars[j] : j \in 1..10} \cup {"sup2"}

IndexOfAny(s, cs) ==
    IF \E j \in 1..Len(s) : s[j] \in cs
    THEN CHOOSE j \in 1..Len(s) : s[j] \in cs /\ \A m \in 1..(j - 1) : s[m] \notin cs
    ELSE 0

CutAt(s, cs) ==
    IF IndexOfAny(s, cs) = 0 THEN s ELSE SubSeq(s, 1, IndexOfAny(s, cs) - 1)

DropScheme(s) ==
    LET c == IndexOfAny(s, {":"})
    IN  IF c > 1 /\ \A j \in 1..(c - 1) : s[j] \in Letters
        THEN SubSeq(s, c + 1, Len(s))
        ELSE s

DropNetloc(s) ==
    IF Len(s) >= 2 /\ s[1] = "/" /\ s[2] = "/"
    THEN LET after == SubSeq(s, 3, Len(s))
             d == IndexOfAny(after, {"/", "?", "#"})
         IN  IF d = 0 THEN <<>> ELSE SubSeq(after, d, Len(after))
    ELSE s

\* urlparse(s).path
urlparse_path(s) == CutAt(CutAt(DropNetloc(DropScheme(s)), {"#"}), {"?"})

\* [p for p in path.split("/") if p]
RECURSIVE PathParts(_)
PathParts(s) ==
    IF s = <<>> THEN <<>>
    ELSE LET d == IndexOfAny(s, {"/"})
             head == IF d = 0 THEN s ELSE SubSeq(s, 1, d - 1)
             rest == IF d = 0 THEN <<>> ELSE SubSeq(s, d + 1, Len(s))
         IN  IF head = <<>> THEN PathParts(rest) ELSE <<head>> \o PathParts(rest)

isdigit(s) == s # <<>> /\ \A j \in 1..Len(s) : s[j] \in DigitChars

IsDecimal(s) == \A j \in 1..Len(s) : \E d \in 1..10 : DecimalChars[d] = s[j]

DigitVal(c) == (CHOOSE d \in 1..10 : DecimalChars[d] = c) - 1

RECURSIVE ParseInt(_)
ParseInt(s) ==
    IF s = <<>> THEN 0
    ELSE ParseInt(SubSeq(s, 1, Len(s) - 1)) * 10 + DigitVal(s[Len(s)])

\* int(s)
PyInt(s) ==
    IF IsDecimal(s)
    THEN Ok(ParseInt(s))
    ELSE Fail(Exc("ValueError", "invalid literal for int()", 0, <<>>))

-----------------------------------------------------------------------------
\* Identifier resolver

\* Variant: a last segment that is not a number falls back to product id 0.
product_id_from_product_url_lenient(url) ==
    LET parts == PathParts(urlparse_path(url))
    IN  IF parts = <<>> \/ ~isdigit(parts[Len(parts)]) \/ ~IsDecimal(parts[Len(parts)])
        THEN Ok(0)
        ELSE PyInt(parts[Len(parts)])

product_id_from_product_url(url) ==
    LET parts == PathParts(urlparse_path(url))
    IN  IF parts = <<>>
        THEN Fail(Exc("ValueError", "Invalid PRODUCT_PAGE_URL path", 0, <<>>))
        ELSE IF ~isdigit(parts[Len(parts)])
        THEN Fail(Exc("ValueError", "Could not extract numeric product id", 0, <<>>))
        ELSE PyInt(parts[Len(parts)])

-----------------------------------------------------------------------------
\* GraphQL client

\* One HTTP exchange with the endpoint, as the client sees it.
\*   net:     "ok", or how urlopen failed ("http_error", "url_error", "other")
\*   errors:  the body has an "errors" key
\*   data:    the body's "data": "absent" (no key), "null" or "object"
\*   product: data's "product": "absent", "null", "empty" ({}) or "object"
\*   title, in_assortment, available: the product's fields, each optional
Resp(net, errors, data, product, title, in_assortment, available) ==
    [net |-> net, errors |-> errors, data |-> data, product |-> product,
     title |-> title, in_assortment |-> in_assortment, available |-> available]

Product(title, in_assortment, available) ==
    Resp("ok", FALSE, "object", "object", title, in_assortment, available)

R_http_error == Resp("http_error", FALSE, "absent", "absent", <<>>, <<>>, <<>>)
R_url_error == Resp("url_error", FALSE, "absent", "absent", <<>>, <<>>, <<>>)
R_errors == Resp("ok", TRUE, "absent", "absent", <<>>, <<>>, <<>>)
R_errors_with_data == Resp("ok", TRUE, "object", "object", <<"Soup">>, <<TRUE>>, <<TRUE>>)
R_no_data == Resp("ok", FALSE, "absent", "absent", <<>>, <<>>, <<>>)
R_data_null == Resp("ok", FALSE, "null", "absent", <<>>, <<>>, <<>>)
R_product_absent == Resp("ok", FALSE, "object", "absent", <<>>, <<>>, <<>>)
R_product_null == Resp("ok", FALSE, "object", "null", <<>>, <<>>, <<>>)
R_product_empty == Resp("ok", FALSE, "object", "empty", <<>>, <<>>, <<>>)

P_soup == Product(<<"Soup">>, <<TRUE>>, <<FALSE>>)
P_stew == Product(<<"Stew">>, <<FALSE>>, <<TRUE>>)
P_untitled == Product(<<>>, <<TRUE>>, <<TRUE>>)
P_blank == Product(<<"">>, <<>>, <<FALSE>>)

\* Variant: an "errors" key is ignored when the body also carries data.
gql_errors_ignored_with_data(resp) ==
    IF resp.net = "http_error"
    THEN Fail(Exc("RuntimeError", "GraphQL HTTPError", 0, <<>>))
    ELSE IF resp.net = "url_error"
    THEN Fail(Exc("RuntimeError", "GraphQL URLError", 0, <<>>))
    ELSE IF resp.net # "ok"
    THEN Fail(Exc("RuntimeError", "GraphQL request failed", 0, <<>>))
    ELSE IF resp.errors /\ resp.data = "absent"
    THEN Fail(Exc("RuntimeError", "GraphQL response errors", 0, <<>>))
    ELSE IF resp.data = "absent"
    THEN Fail(Exc("RuntimeError", "GraphQL missing data payload", 0, <<>>))
    ELSE Ok([data |-> resp.data, product |-> resp.product, title |-> resp.title,
             in_assortment |-> resp.in_assortment, available |-> resp.available])

gql(resp) ==
    IF resp.net = "http_error"
    THEN Fail(Exc("RuntimeError", "GraphQL HTTPError", 0, <<>>))
    ELSE IF resp.net = "url_error"
    THEN Fail(Exc("RuntimeError", "GraphQL URLError", 0, <<>>))
    ELSE IF resp.net # "ok"
    THEN Fail(Exc("RuntimeError", "GraphQL request failed", 0, <<>>))
    ELSE IF resp.errors
    THEN Fail(Exc("RuntimeError", "GraphQL response errors", 0, <<>>))
    ELSE IF resp.data = "absent"
    THEN Fail(Exc("RuntimeError", "GraphQL missing data payload", 0, <<>>))
    ELSE Ok([data |-> resp.data, product |-> resp.product, title |-> resp.title,
             in_assortment |-> resp.in_assortment, available |-> resp.available])

-----------------------------------------------------------------------------
\* Retry wrapper

\* Variant: the loop bound is off by one (range(attempts + 1)).
with_retry_step_extra_attempt(i, attempts, res) ==
    IF res.ok
    THEN [kind |-> "return", val |-> res.val, last_exc |-> <<>>, sleep |-> 0, exc |-> <<>>]
    ELSE IF i < attempts
    THEN [kind |-> "sleep", val |-> <<>>, last_exc |-> res.exc,
          sleep |-> DELAY_TENTHS * (i + 1), exc |-> <<>>]
    ELSE [kind |-> "raise", val |-> <<>>, last_exc |-> res.exc, sleep |-> 0,
          exc |-> <<Exc("RuntimeError", "Operation failed after attempts", attempts, res.exc)>>]

\* Variant: the delay is not scaled by the attempt number.
with_retry_step_constant_delay(i, attempts, res) ==
    IF res.ok
    THEN [kind |-> "return", val |-> res.val, last_exc |-> <<>>, sleep |-> 0, exc |-> <<>>]
    ELSE IF i < attempts - 1
    THEN [kind |-> "sleep", val |-> <<>>, last_exc |-> res.exc,
          sleep |-> DELAY_TENTHS, exc |-> <<>>]
    ELSE [kind |-> "raise", val |-> <<>>, last_exc |-> res.exc, sleep |-> 0,
          exc |-> <<Exc("RuntimeError", "Operation failed after attempts", attempts, res.exc)>>]

\* One iteration i of with_retry's loop, given the outcome res of fn():
\* return its value, or record the error and sleep before the next iteration,
\* or (after the last iteration) raise the wrapping error.
with_retry_step(i, attempts, res) ==
    IF res.ok
    THEN [kind |-> "return", val |-> res.val, last_exc |-> <<>>, sleep |-> 0, exc |-> <<>>]
    ELSE IF i < attempts - 1
    THEN [kind |-> "sleep", val |-> <<>>, last_exc |-> res.exc,
          sleep |-> DELAY_TENTHS * (i + 1), exc |-> <<>>]
    ELSE [kind |-> "raise", val |-> <<>>, last_exc |-> res.exc, sleep |-> 0,
          exc |-> <<Exc("RuntimeError", "Operation failed after attempts", attempts, res.exc)>>]

-----------------------------------------------------------------------------
\* Store availability aggregator

\* Variant: a missing product is passed on as an empty one (data["product"] or {}).
check_product_for_store_unchecked(product_id, store_id, resp) ==
    LET d == gql(resp)
    IN  IF ~d.ok THEN d
        ELSE IF d.val[1].data = "null"
        THEN Fail(Exc("AttributeError", "NoneType has no attribute get", 0, <<>>))
        ELSE IF d.val[1].product # "object"
        THEN Ok([title |-> <<>>, in_assortment |-> <<>>, available |-> <<>>])
        ELSE Ok([title |-> d.val[1].title,
                 in_assortment |-> d.val[1].in_assortment,
                 available |-> d.val[1].available])

\* Variant: a process-wide cache of the last product seen per store, shared by
\* all request threads.
check_product_for_store_cached(product_id, store_id, resp) ==
    LET d == gql(resp)
        hit == {c \in Requests : \E j \in 1..Len(req[c].stores) :
                                    req[c].stores[j].store_id = store_id}
    IN  IF hit # {}
        THEN LET c == CHOOSE c \in hit : TRUE
                 rec == CHOOSE rec \in {req[c].stores[j] : j \in 1..Len(req[c].stores)} :
                            rec.store_id = store_id
             IN  Ok([title |-> <<>>, in_assortment |-> <<rec.located>>,
                     available |-> <<rec.in_stock>>])
        ELSE IF ~d.ok THEN d
        ELSE IF d.val[1].data = "null"
        THEN Fail(Exc("AttributeError", "NoneType has no attribute get", 0, <<>>))
        ELSE IF d.val[1].product # "object"
        THEN Fail(Exc("RuntimeError", "No product payload", store_id, <<>>))
        ELSE Ok([title |-> d.val[1].title,
                 in_assortment |-> d.val[1].in_assortment,
                 available |-> d.val[1].available])

check_product_for_store(product_id, store_id, resp) ==
    LET d == gql(resp)
    IN  IF ~d.ok THEN d
        ELSE IF d.val[1].data = "null"
        THEN Fail(Exc("AttributeError", "NoneType has no attribute get", 0, <<>>))
        ELSE IF d.val[1].product # "object"
        THEN Fail(Exc("RuntimeError", "No product payload", store_id, <<>>))
        ELSE Ok([title |-> d.val[1].title,
                 in_assortment |-> d.val[1].in_assortment,
                 available |-> d.val[1].available])

StoreRecord(label, store_id, product) ==
    [label |-> label, store_id |-> store_id,
     located |-> PyBool(product.in_assortment),
     in_stock |-> PyBool(product.available)]

\* Variant: the latest title wins.
NextTitle_latest(title, product) == PyOr(product.title, title)

\* title = title or product.get("title")
NextTitle(title, product) == PyOr(title, product.title)

\* Variant: stores.insert(0, {...})
AppendStore_front(stores, rec) == <<rec>> \o stores

\* stores.append({...})
AppendStore(stores, rec) == Append(stores, rec)

Snapshot(l, url) ==
    [kind |-> "snapshot", product_id |-> l.product_id,
     title |-> PyOr(l.title, <<FALLBACK_TITLE>>)[1],
     source |-> GRAPHQL_URL, product_page_url |-> url,
     stores |-> l.stores, error |-> <<>>, traceback |-> FALSE]

ErrorPayload(exc, url) ==
    [kind |-> "error", product_id |-> 0, title |-> "",
     source |-> GRAPHQL_URL, product_page_url |-> url,
     stores |-> <<>>, error |-> <<exc>>, traceback |-> TRUE]

HtmlPayload ==
    [kind |-> "html", product_id |-> 0, title |-> INDEX_HTML,
     source |-> "", product_page_url |-> <<>>,
     stores |-> <<>>, error |-> <<>>, traceback |-> FALSE]

-----------------------------------------------------------------------------
\* Status service: one thread per request (ThreadingHTTPServer)

\* The locals of a request thread. pc is where the thread is:
\*   "idle"  not yet accepted      "call"  blocked in urlopen (query in flight)
\*   "sleep" blocked in time.sleep  "done"  response written
IdleLocal ==
    [pc |-> "idle", target |-> <<>>, product_id |-> 0, idx |-> 0, i |-> 0,
     query |-> <<>>, last_exc |-> <<>>, title |-> <<>>, stores |-> <<>>,
     calls |-> <<>>, sleeps |-> <<>>, response |-> <<>>]

API_STATUS == <<"/", "a", "p", "i", "/", "s", "t", "a", "t", "u", "s">>
ROOT == <<"/">>

\* send_response(status); end_headers(); wfile.write(body)
Respond(l, status, body) ==
    [l EXCEPT !.pc = "done", !.query = <<>>,
              !.response = <<[status |-> status, body |-> body]>>]

\* with_retry(lambda: check_product_for_store(product_id, store_id)) enters
\* its loop: the first query for store idx goes out.
EnterStore(l, idx) ==
    [l EXCEPT !.pc = "call", !.idx = idx, !.i = 0, !.last_exc = <<>>,
              !.query = <<[productId |-> l.product_id,
                           storeId |-> TARGET_STORES[idx].store_id]>>]

\* Variant: the error payload is sent with the success status.
do_GET_except_200(l, exc, url) == Respond(l, 200, <<ErrorPayload(exc, url)>>)

\* The except branch of do_GET: whatever collect_status raised becomes a 500.
do_GET_except(l, exc, url) == Respond(l, 500, <<ErrorPayload(exc, url)>>)

\* Variant: a store whose retries are exhausted is skipped and the cycle
\* goes on with the stores after it.
collect_status_raise_skip_store(l, exc, url) ==
    IF l.idx = 0 THEN do_GET_except(l, exc, url)
    ELSE IF l.idx < Len(TARGET_STORES) THEN EnterStore(l, l.idx + 1)
    ELSE Respond(l, 200, <<Snapshot(l, url)>>)

\* An exception leaving with_retry is not caught in collect_status: it
\* propagates to do_GET.
collect_status_raise(l, exc, url) == do_GET_except(l, exc, url)

\* with_retry returned product for store l.idx: the rest of the loop body,
\* then the next store, or the return of the snapshot and the 200 response.
collect_status_store_done(l, product, url) ==
    LET st == TARGET_STORES[l.idx]
        l2 == [l EXCEPT !.title = NextTitle(l.title, product),
                        !.stores = AppendStore(l.stores,
                                       StoreRecord(st.label, st.store_id, product))]
    IN  IF l.idx < Len(TARGET_STORES)
        THEN EnterStore(l2, l.idx + 1)
        ELSE Respond(l2, 200, <<Snapshot(l2, url)>>)

collect_status_begin(l, url) ==
    LET pid == product_id_from_product_url(url)
    IN  IF ~pid.ok
        THEN collect_status_raise(l, pid.exc[1], url)
        ELSE EnterStore([l EXCEPT !.product_id = pid.val[1]], 1)

Route(path) ==
    IF path = ROOT THEN "index"
    ELSE IF path = API_STATUS THEN "status"
    ELSE "not_found"

do_GET(l, url) ==
    LET route == Route(urlparse_path(l.target))
    IN  IF route = "index" THEN Respond(l, 200, <<HtmlPayload>>)
        ELSE IF route = "status" THEN collect_status_begin(l, url)
        ELSE Respond(l, 404, <<>>)

\* urlopen returned (or raised) with resp: the rest of this attempt.
on_response(l, resp, url) ==
    LET q == l.query[1]
        res == check_product_for_store(q.productId, q.storeId, resp)
        step == with_retry_step(l.i, DEFAULT_ATTEMPTS, res)
        l2 == [l EXCEPT !.calls = Append(l.calls, [store_id |-> q.storeId, resp |-> resp]),
                        !.query = <<>>]
    IN  IF step.kind = "return"
        THEN collect_status_store_done(l2, step.val[1], url)
        ELSE IF step.kind = "sleep"
        THEN [l2 EXCEPT !.pc = "sleep", !.last_exc = step.last_exc,
                        !.sleeps = Append(l2.sleeps, step.sleep)]
        ELSE collect_status_raise([l2 EXCEPT !.last_exc = step.last_exc], step.exc[1], url)

\* time.sleep returned: the next iteration of with_retry's loop calls fn again.
on_wake(l) ==
    [l EXCEPT !.pc = "call", !.i = l.i + 1,
              !.query = <<[productId |-> l.product_id,
                           storeId |-> TARGET_STORES[l.idx].store_id]>>]

URL_DEFAULT == <<"h", ":", "/", "/", "c", "/", "p", "/", "6", "0", "8", "8", "9", "0">>
URL_TRAILING == <<"h", ":", "/", "/", "c", "/", "p", "/", "4", "2", "/", "?", "x">>
URL_NO_PATH == <<"h", ":", "/", "/", "c">>
URL_ROOT == <<"h", ":", "/", "/", "c", "/">>
URL_ALPHA == <<"h", ":", "/", "/", "c", "/", "p", "/", "6", "0", "a">>
URL_SLUG == <<"h", ":", "/", "/", "c", "/", "p", "/", "9", "/", "s">>
URL_SUPERSCRIPT == <<"h", ":", "/", "/", "c", "/", "p", "/", "sup2">>

Urls == {URL_DEFAULT, URL_TRAILING, URL_NO_PATH, URL_ROOT, URL_ALPHA, URL_SLUG,
         URL_SUPERSCRIPT}

Targets ==
    { ROOT, <<"/", "?", "x">>, API_STATUS, API_STATUS \o <<"?", "t">>,
      API_STATUS \o <<"/">>, <<"/", "x">> }

StubFull ==
    { R_http_error, R_errors, R_errors_with_data, R_no_data, R_data_null,
      R_product_null, R_product_absent, R_product_empty,
      P_soup, P_stew, P_untitled, P_blank }

StubSmall == { R_url_error, P_soup }

ServerTargets == { <<"/", "?", "x">>, API_STATUS \o <<"?", "t">>, API_STATUS \o <<"/">> }

Accept(r) ==
    /\ r \in DOMAIN clients
    /\ req[r].pc = "idle"
    /\ \E target \in clients[r] :
          req' = [req EXCEPT ![r] = do_GET([@ EXCEPT !.target = target], PRODUCT_PAGE_URL)]
    /\ UNCHANGED <<PRODUCT_PAGE_URL, stub, clients, rt>>

GqlReturn(r) ==
    /\ req[r].pc = "call"
    /\ \E resp \in stub :
          req' = [req EXCEPT ![r] = on_response(@, resp, PRODUCT_PAGE_URL)]
    /\ UNCHANGED <<PRODUCT_PAGE_URL, stub, clients, rt>>

WakeUp(r) ==
    /\ req[r].pc = "sleep"
    /\ req' = [req EXCEPT ![r] = on_wake(@)]
    /\ UNCHANGED <<PRODUCT_PAGE_URL, stub, clients, rt>>

-----------------------------------------------------------------------------
\* A stand-alone call with_retry(fn, attempts), fn failing on its first k
\* invocations and succeeding afterwards

RtOff ==
    [pc |-> "off", attempts |-> 0, k |-> 0, i |-> 0, calls |-> 0,
     sleeps |-> <<>>, last_exc |-> <<>>, out |-> <<>>]

RtStart(n, k) == [RtOff EXCEPT !.pc = "run", !.attempts = n, !.k = k]

\* The c-th invocation of fn.
fn(c, k) == IF c <= k THEN Fail(Exc("Exception", "fn failed", c, <<>>)) ELSE Ok("success")

RetryInvoke ==
    /\ rt.pc = "run"
    /\ LET c == rt.calls + 1
           step == with_retry_step(rt.i, rt.attempts, fn(c, rt.k))
       IN  rt' = IF step.kind = "return"
                 THEN [rt EXCEPT !.pc = "returned", !.calls = c, !.out = <<Ok(step.val[1])>>]
                 ELSE IF step.kind = "sleep"
                 THEN [rt EXCEPT !.pc = "sleep", !.calls = c, !.last_exc = step.last_exc,
                                 !.sleeps = Append(rt.sleeps, step.sleep)]
                 ELSE [rt EXCEPT !.pc = "raised", !.calls = c, !.last_exc = step.last_exc,
                                 !.out = <<Fail(step.exc[1])>>]
    /\ UNCHANGED <<PRODUCT_PAGE_URL, stub, clients, req>>

RetryWake ==
    /\ rt.pc = "sleep"
    /\ rt' = [rt EXCEPT !.pc = "run", !.i = rt.i + 1]
    /\ UNCHANGED <<PRODUCT_PAGE_URL, stub, clients, req>>

-----------------------------------------------------------------------------
\* Specifications

\* One status cycle at a time, against an endpoint that can answer anything.
Init ==
    /\ PRODUCT_PAGE_URL \in Urls \ {URL_TRAILING}
    /\ stub = StubFull
    /\ clients = [r \in {1} |-> Targets]
    /\ req = [r \in Requests |-> IdleLocal]
    /\ rt = RtOff

Next == \E r \in Requests : Accept(r) \/ GqlReturn(r) \/ WakeUp(r)

Spec == Init /\ [][Next]_vars

\* NumRequests concurrent requests.
InitServer ==
    /\ PRODUCT_PAGE_URL \in {URL_TRAILING, URL_ALPHA}
    /\ stub = StubSmall
    /\ clients = [r \in Requests |-> ServerTargets]
    /\ req = [r \in Requests |-> IdleLocal]
    /\ rt = RtOff

SpecServer == InitServer /\ [][Next]_vars

\* with_retry on its own.
InitRetry ==
    /\ PRODUCT_PAGE_URL = URL_DEFAULT
    /\ stub = {}
    /\ clients = <<>>
    /\ req = [r \in Requests |-> IdleLocal]
    /\ \E n \in 1..MaxAttempts, k \in 0..MaxFailures : rt = RtStart(n, k)

NextRetry == RetryInvoke \/ RetryWake

SpecRetry == InitRetry /\ [][NextRetry]_vars

-----------------------------------------------------------------------------
\* Vocabulary of the properties, stated on what went over the wire

Done(l) == l.pc = "done"
Status(l) == l.response[1].status
Body(l) == l.response[1].body
StatusRequest(l) == Done(l) /\ urlparse_path(l.target) = API_STATUS

\* A well-formed response that carries a product object.
HasProduct(resp) ==
    resp.net = "ok" /\ ~resp.errors /\ resp.data = "object" /\ resp.product = "object"

\* A well-formed response whose product is absent or null.
NullProduct(resp) ==
    resp.net = "ok" /\ ~resp.errors /\ resp.data = "object"
        /\ resp.product \in {"absent", "null"}

StoreIds == {TARGET_STORES[j].store_id : j \in 1..Len(TARGET_STORES)}
StoreIndex(sid) == CHOOSE j \in 1..Len(TARGET_STORES) : TARGET_STORES[j].store_id = sid

CallsFor(l, sid) == SelectSeq(l.calls, LAMBDA c : c.store_id = sid)
Last(s) == s[Len(s)]

NoProductExc(sid) == Exc("RuntimeError", "No product payload", sid, <<>>)
Exhausted(cause) == Exc("RuntimeError", "Operation failed after attempts", DEFAULT_ATTEMPTS, <<cause>>)

-----------------------------------------------------------------------------
\* C1: with_retry(fn, attempts = n), fn failing on its first k invocations:
\* a call that returned made exactly k + 1 invocations, had k < n, and
\* returned the success value; a call that raised made exactly n invocations,
\* had k >= n, and raised the retry-exhausted error wrapping the error of the
\* n-th invocation; no call ever makes more than n invocations.
C1_RetryOutcome ==
    /\ rt.calls <= rt.attempts
    /\ rt.pc = "returned" =>
          rt.k < rt.attempts /\ rt.calls = rt.k + 1 /\ rt.out = <<Ok("success")>>
    /\ rt.pc = "raised" =>
          /\ rt.k >= rt.attempts
          /\ rt.calls = rt.attempts
          /\ rt.out = <<Fail(Exc("RuntimeError", "Operation failed after attempts", rt.attempts,
                                 <<Exc("Exception", "fn failed", rt.attempts, <<>>)>>))>>
    /\ rt.pc \in {"run", "sleep"} => rt.calls <= rt.k /\ rt.calls < rt.attempts

\* fail, fail, succeed under attempts = 3: three invocations and the value.
C1_Witness ==
    rt.pc = "returned" /\ rt.attempts = 3 /\ rt.k = 2 /\ rt.calls = 3

\* C9: within one with_retry call the j-th sleep follows the j-th failed
\* attempt and lasts delay_seconds * j; there is no sleep before the first
\* attempt, none after a success and none after the final failure: a call
\* that has finished after m attempts has slept exactly m - 1 times.
C9_LinearBackoff ==
    /\ \A j \in 1..Len(rt.sleeps) : rt.sleeps[j] = DELAY_TENTHS * j
    /\ rt.pc = "run" => Len(rt.sleeps) = rt.calls
    /\ rt.pc = "sleep" => Len(rt.sleeps) = rt.calls /\ rt.calls < rt.attempts
    /\ rt.pc \in {"returned", "raised"} => Len(rt.sleeps) = rt.calls - 1

\* Four failed attempts out of four: sleeps of 1, 2 and 3 delays, none after.
C9_Witness ==
    rt.pc = "raised" /\ rt.attempts = 4 /\ Len(rt.sleeps) = 3

-----------------------------------------------------------------------------
\* A status request whose cycle reached the endpoint and got only responses
\* carrying an "errors" key.
AllErrors(l) ==
    StatusRequest(l) /\ l.calls # <<>> /\ \A j \in 1..Len(l.calls) : l.calls[j].resp.errors

\* C2 as stated: when every upstream response carries an errors field, the
\* status request ends in a 500 whose error contains the upstream error,
\* after exactly 3 upstream attempts for each configured store.
C2_ThreeAttemptsForEachStore ==
    \A r \in Requests :
        AllErrors(req[r]) =>
            /\ Status(req[r]) = 500
            /\ \A sid \in StoreIds : Len(CallsFor(req[r], sid)) = DEFAULT_ATTEMPTS

\* C2 amended: when every upstream response carries an errors field, the
\* status request ends in a 500 whose error wraps the upstream error, after
\* exactly 3 upstream attempts for the first configured store and none for
\* any store after it.
C2_ThreeAttemptsForFirstStoreOnly ==
    \A r \in Requests :
        AllErrors(req[r]) =>
            /\ Status(req[r]) = 500
            /\ Body(req[r])[1].kind = "error"
            /\ Body(req[r])[1].error =
                  <<Exhausted(Exc("RuntimeError", "GraphQL response errors", 0, <<>>))>>
            /\ Len(CallsFor(req[r], TARGET_STORES[1].store_id)) = DEFAULT_ATTEMPTS
            /\ \A j \in 2..Len(TARGET_STORES) :
                  Len(CallsFor(req[r], TARGET_STORES[j].store_id)) = 0

\* Three error responses, one of them carrying data besides its errors.
C2_Witness ==
    \E r \in Requests :
        /\ AllErrors(req[r])
        /\ Len(req[r].calls) = 3
        /\ \E j \in 1..3 : req[r].calls[j].resp.data = "object"

\* The answered status request of r carries a snapshot.
Succeeded(l) == StatusRequest(l) /\ Status(l) = 200

\* C3: in every successful cycle the snapshot has exactly one record per
\* configured store, in the order of TARGET_STORES; the i-th record has the
\* i-th store's label and store_id, and its located/in_stock are those of the
\* product-carrying response to this cycle's last query for that store_id,
\* however many attempts each store took.
C3_SnapshotOrderAndSource ==
    \A r \in Requests :
        Succeeded(req[r]) =>
            LET stores == Body(req[r])[1].stores
            IN  /\ Len(stores) = Len(TARGET_STORES)
                /\ \A j \in 1..Len(TARGET_STORES) :
                      LET own == CallsFor(req[r], TARGET_STORES[j].store_id)
                      IN  /\ stores[j].label = TARGET_STORES[j].label
                          /\ stores[j].store_id = TARGET_STORES[j].store_id
                          /\ own # <<>>
                          /\ HasProduct(Last(own).resp)
                          /\ stores[j].located = (Last(own).resp.in_assortment = <<TRUE>>)
                          /\ stores[j].in_stock = (Last(own).resp.available = <<TRUE>>)

\* Both stores needed retries and their responses differ in both fields.
C3_Witness ==
    \E r \in Requests :
        /\ Succeeded(req[r])
        /\ Len(req[r].calls) = 5
        /\ Body(req[r])[1].stores[1].located /\ ~Body(req[r])[1].stores[2].located
        /\ ~Body(req[r])[1].stores[1].in_stock /\ Body(req[r])[1].stores[2].in_stock

\* The configured URL has an empty path, or a last path segment that is not
\* all decimal digits.
Unresolvable(url) ==
    LET parts == PathParts(urlparse_path(url))
    IN  parts = <<>> \/ ~IsDecimal(Last(parts))

\* C5: a product-identifier resolution failure is never retried: the cycle
\* issues no upstream call and sleeps no backoff, and the status request is
\* answered 500 with the resolution error itself, not wrapped.
C5_ResolutionNotRetried ==
    \A r \in Requests :
        Unresolvable(PRODUCT_PAGE_URL) =>
            /\ req[r].pc \in {"idle", "done"}
            /\ req[r].calls = <<>> /\ req[r].sleeps = <<>> /\ req[r].query = <<>>
            /\ StatusRequest(req[r]) =>
                  /\ Status(req[r]) = 500
                  /\ Body(req[r])[1].kind = "error"
                  /\ Body(req[r])[1].error[1].type = "ValueError"
                  /\ Body(req[r])[1].error[1].cause = <<>>

\* A non-numeric last segment, answered.
C5_Witness ==
    \E r \in Requests :
        PRODUCT_PAGE_URL = URL_ALPHA /\ StatusRequest(req[r]) /\ Status(req[r]) = 500

\* C6: an attempt whose response is well formed but has no product (absent
\* or null) fails with the no-product error and is retried like any other
\* failure: after such a response the wrapper holds that error and sleeps
\* and queries the same store again, or gives up, never records the store; three such responses in a row for one
\* store end the cycle with the retry-exhausted error wrapping the no-product
\* error after exactly 3 queries of that store; and a product-carrying
\* response within the 3 attempts gets the store recorded.
C6_NullProductRetried ==
    \A r \in Requests :
        LET l == req[r]
            n == Len(l.calls)
        IN  /\ (n > 0 /\ NullProduct(l.calls[n].resp)) =>
                  /\ l.last_exc = <<NoProductExc(l.calls[n].store_id)>>
                  /\ \A j \in 1..Len(l.stores) : l.stores[j].store_id # l.calls[n].store_id
                  /\ l.pc \in {"sleep", "call"} =>
                        /\ Len(CallsFor(l, l.calls[n].store_id)) < DEFAULT_ATTEMPTS
                        /\ TARGET_STORES[l.idx].store_id = l.calls[n].store_id
                  /\ l.pc = "done" =>
                        /\ Len(CallsFor(l, l.calls[n].store_id)) = DEFAULT_ATTEMPTS
                        /\ Status(l) = 500
                        /\ Body(l)[1].error = <<Exhausted(NoProductExc(l.calls[n].store_id))>>
            /\ \A j \in 1..n :
                  HasProduct(l.calls[j].resp) =>
                      \E m \in 1..Len(l.stores) : l.stores[m].store_id = l.calls[j].store_id

\* A store whose product was null on every one of its three attempts.
C6_Witness ==
    \E r \in Requests :
        /\ Done(req[r]) /\ Len(req[r].calls) = 3
        /\ \A j \in 1..3 : NullProduct(req[r].calls[j].resp)

\* The cycle of l ended because the attempts of a store ran out.
RetriesExhausted(l) ==
    StatusRequest(l) /\ l.calls # <<>> /\ ~HasProduct(Last(l.calls).resp)

\* C8: exhausted retries of any store abort the whole cycle: the answer is a
\* 500 without snapshot or per-store results even when earlier stores
\* succeeded, and no store after the failing one is queried. A cycle issues
\* at most 3 calls per store, store by store in configured order, and a
\* successful cycle between 1 and 3 per store.
C8_ExhaustionAbortsCycle ==
    \A r \in Requests :
        LET l == req[r]
        IN  /\ Len(l.calls) <= DEFAULT_ATTEMPTS * Len(TARGET_STORES)
            /\ \A sid \in StoreIds : Len(CallsFor(l, sid)) <= DEFAULT_ATTEMPTS
            /\ \A j \in 1..Len(l.calls) :
                  /\ l.calls[j].store_id \in StoreIds
                  /\ j > 1 => StoreIndex(l.calls[j - 1].store_id) <= StoreIndex(l.calls[j].store_id)
            /\ RetriesExhausted(l) =>
                  /\ Status(l) = 500
                  /\ Body(l)[1].kind = "error" /\ Body(l)[1].stores = <<>>
                  /\ Len(CallsFor(l, Last(l.calls).store_id)) = DEFAULT_ATTEMPTS
            /\ Succeeded(l) =>
                  \A sid \in StoreIds : Len(CallsFor(l, sid)) \in 1..DEFAULT_ATTEMPTS

\* The first store succeeded, the second ran out of attempts.
C8_Witness ==
    \E r \in Requests :
        /\ RetriesExhausted(req[r])
        /\ Len(req[r].stores) = 1
        /\ Len(CallsFor(req[r], TARGET_STORES[2].store_id)) = 3

\* The title the product-carrying response for the j-th store supplied.
\* A title counts as supplied when it is a non-empty string: the code tests
\* it with "or", under which None and "" are the same.
SuppliedTitle(l, j) == Last(CallsFor(l, TARGET_STORES[j].store_id)).resp.title

\* C10: in a successful cycle the snapshot's title is the title of the first
\* store, in configured order, whose response supplies one; later stores do
\* not overwrite it; if no store supplies one it is the fallback string.
C10_FirstTitleWins ==
    \A r \in Requests :
        Succeeded(req[r]) =>
            LET l == req[r]
                titled == {j \in 1..Len(TARGET_STORES) : TruthyStr(SuppliedTitle(l, j))}
            IN  IF titled = {}
                THEN Body(l)[1].title = FALLBACK_TITLE
                ELSE \E j \in titled :
                        /\ \A m \in titled : j <= m
                        /\ Body(l)[1].title = SuppliedTitle(l, j)[1]

\* Both stores supply a title, and they differ.
C10_Witness ==
    \E r \in Requests :
        /\ Succeeded(req[r])
        /\ TruthyStr(SuppliedTitle(req[r], 1)) /\ TruthyStr(SuppliedTitle(req[r], 2))
        /\ SuppliedTitle(req[r], 1) # SuppliedTitle(req[r], 2)

-----------------------------------------------------------------------------
\* collect_status returned: every configured store got a product-carrying
\* response within this request's own calls.
CycleReturned(l) ==
    \A sid \in StoreIds :
        \E j \in 1..Len(l.calls) : l.calls[j].store_id = sid /\ HasProduct(l.calls[j].resp)

\* Thread q is not held up: whatever its position, its next step can be taken.
CanProceed(q) ==
    /\ req[q].pc = "idle" => ENABLED Accept(q)
    /\ req[q].pc = "call" => ENABLED GqlReturn(q)
    /\ req[q].pc = "sleep" => ENABLED WakeUp(q)

\* C4: the status of every answered GET follows from its path and the
\* outcome of the aggregation alone: "/" gets 200 and the page; "/api/status"
\* gets 200 with the snapshot exactly when collect_status returned and 500
\* with the error payload (error, traceback, product_page_url, source)
\* exactly when it raised; any other path gets 404 with an empty body. And
\* once a status request has failed, every other request can still be
\* accepted and carried on.
C4_StatusByPathAndOutcome ==
    \A r \in Requests :
        LET l == req[r]
            path == urlparse_path(l.target)
        IN  Done(l) =>
              /\ path = ROOT => Status(l) = 200 /\ Body(l) = <<HtmlPayload>>
              /\ path = API_STATUS /\ CycleReturned(l) =>
                    Status(l) = 200 /\ Body(l)[1].kind = "snapshot"
              /\ path = API_STATUS /\ ~CycleReturned(l) =>
                    /\ Status(l) = 500
                    /\ Body(l)[1].kind = "error"
                    /\ Body(l)[1].error # <<>>
                    /\ Body(l)[1].traceback
                    /\ Body(l)[1].product_page_url = PRODUCT_PAGE_URL
                    /\ Body(l)[1].source = GRAPHQL_URL
              /\ path \notin {ROOT, API_STATUS} => Status(l) = 404 /\ Body(l) = <<>>
              /\ Status(l) = 500 => \A q \in Requests \ {r} : CanProceed(q)

\* One status request failed, another one succeeded.
C4_Witness ==
    \E r, q \in Requests :
        /\ StatusRequest(req[r]) /\ Status(req[r]) = 500
        /\ StatusRequest(req[q]) /\ Status(req[q]) = 200

\* What the snapshot must say about the j-th store, going by the request's
\* own calls.
OwnRecord(l, j) ==
    LET own == CallsFor(l, TARGET_STORES[j].store_id)
    IN  [label |-> TARGET_STORES[j].label, store_id |-> TARGET_STORES[j].store_id,
         located |-> (Last(own).resp.in_assortment = <<TRUE>>),
         in_stock |-> (Last(own).resp.available = <<TRUE>>)]

Blocked(l) == l.pc \in {"call", "sleep"}

\* C7: concurrent status requests are independent. Under every interleaving
\* each answered request has made its own upstream calls (at least one per
\* store it reports), its answer is the one its own calls determine (200 with
\* the records of its own product-carrying responses exactly when each store
\* got one, 500 otherwise), and while a request is blocked in an upstream
\* call or a backoff sleep every other request can be accepted and carried on.
C7_RequestsIndependent ==
    \A r \in Requests :
        LET l == req[r]
        IN  /\ StatusRequest(l) =>
                  /\ Status(l) = IF CycleReturned(l) THEN 200 ELSE 500
                  /\ CycleReturned(l) =>
                        /\ Len(l.calls) >= Len(TARGET_STORES)
                        /\ Body(l)[1].stores =
                              [j \in 1..Len(TARGET_STORES) |-> OwnRecord(l, j)]
            /\ \A j \in 1..Len(l.stores) :
                  /\ CallsFor(l, l.stores[j].store_id) # <<>>
                  /\ l.stores[j] = OwnRecord(l, j)
            /\ Blocked(l) => \A q \in Requests \ {r} : CanProceed(q)

\* Two requests in flight at once, given different answers for the same
\* store: one has recorded it, the other is still blocked in its backoff.
C7_Witness ==
    \E r, q \in Requests :
        /\ r # q
        /\ req[r].pc = "sleep" /\ Len(req[r].calls) = 1
        /\ req[q].pc = "call" /\ Len(req[q].stores) = 1 /\ req[q].stores[1].located

====
